---- MODULE Spec2Model ----
(***************************************************************************)
(* Model of examples/dejkstras_algorithm.rs: the shortest-path routine     *)
(* dejkstras_alg and its helper find_lowest_cost_node, together with the   *)
(* caller that builds a NodeGraph with HashMap inserts and then queries    *)
(* it.  HashMap iteration order is unspecified, so every loop over a map   *)
(* is modelled as a fold over an arbitrary permutation of its keys.        *)
(***************************************************************************)
EXTENDS Integers, Sequences, FiniteSets, TLC

\* ------------------------------------------------------------------ bounds

\* Node identifiers.  The routine only hashes and compares them, so the start
\* node is the one named "start", as in main() and the tests; finish is any node.
Nodes == {"start", "a", "fin"}

\* Non-negative edge weights range over 0..MaxWeight.
MaxWeight == 1

\* Signed edge weights range over -MaxNeg..MaxNeg.
MaxNeg == 1

\* Total number of edges of a graph with non-negative weights.
MaxEdges == 4

\* Total number of edges of a graph with signed weights.
MaxSignedEdges == 3

\* i32::MAX, the "unknown cost" sentinel.
I32_MAX == 2147483647

Weights == 0 .. MaxWeight

SignedWeights == (0 - MaxNeg) .. MaxNeg

CycleWeights == {0 - MaxNeg, MaxNeg}

\* ------------------------------------------------------------ Option, maps

None == << >>

Some(x) == << x >>

\* HashMap::new()
EmptyMap == [n \in {} |-> 0]

\* HashMap::insert(k, v)
MapInsert(m, k, v) == [x \in (DOMAIN m) \cup {k} |-> IF x = k THEN v ELSE m[x]]

\* HashMap::get(k): Option of the value
MapGet(m, k) == IF k \in DOMAIN m THEN Some(m[k]) ELSE None

\* The iteration orders a HashMap with key set S may produce.
Orders(S) ==
    {o \in [1 .. Cardinality(S) -> S] : \A i, j \in DOMAIN o : o[i] = o[j] => i = j}

\* new_h_map(arr): the neighbour maps a caller can pass, with weights in W.
new_h_map(W) == UNION {[D -> W] : D \in SUBSET Nodes}

RECURSIVE EdgeCount(_)
EdgeCount(g) ==
    IF DOMAIN g = {} THEN 0
    ELSE LET k == CHOOSE x \in DOMAIN g : TRUE
         IN Cardinality(DOMAIN g[k]) + EdgeCount([x \in (DOMAIN g) \ {k} |-> g[x]])

\* ------------------------------------------------- find_lowest_cost_node

RECURSIVE FindLowestFold(_, _, _, _, _)
FindLowestFold(costs_, processed_, order, lowest_cost, lowest_cost_node) ==
    IF order = << >> THEN lowest_cost_node
    ELSE LET node == Head(order)
             cost == costs_[node]
         IN IF node \notin processed_ /\ cost < lowest_cost
            THEN FindLowestFold(costs_, processed_, Tail(order), cost, Some(node))
            ELSE FindLowestFold(costs_, processed_, Tail(order), lowest_cost,
                                lowest_cost_node)

\* Mutant: the scan returns the first unprocessed key it meets, whatever its cost.
find_first_unprocessed(costs_, processed_, order) ==
    LET open == {i \in DOMAIN order : order[i] \notin processed_ /\ costs_[order[i]] < I32_MAX}
    IN IF open = {} THEN None
       ELSE Some(order[CHOOSE i \in open : \A j \in open : i <= j])

find_lowest_cost_node(costs_, processed_, order) ==
    FindLowestFold(costs_, processed_, order, I32_MAX, None)

\* ------------------------------------------------------- the loop's body

\* Mutant: a neighbour's cost is recorded when it is first met and never lowered.
RelaxNeighbor_NeverLowers(st, node, cost, neighbors, n) ==
    IF n \in DOMAIN st.costs THEN st
    ELSE [costs |-> MapInsert(st.costs, n, cost + neighbors[n]),
          parents |-> MapInsert(st.parents, n, node)]

\* Mutant: the new cost is recorded without comparing it with the old one.
RelaxNeighbor_Overwrites(st, node, cost, neighbors, n) ==
    [costs |-> MapInsert(st.costs, n, cost + neighbors[n]),
     parents |-> MapInsert(st.parents, n, node)]

\* One pass of `for n in neighbors.keys()` for neighbour n.
RelaxNeighbor(st, node, cost, neighbors, n) ==
    LET new_cost == cost + neighbors[n]
        entered == IF n \in DOMAIN st.costs THEN st.costs
                   ELSE MapInsert(st.costs, n, I32_MAX)
        old_cost == entered[n]
    IN IF new_cost < old_cost
       THEN [costs |-> MapInsert(entered, n, new_cost),
             parents |-> MapInsert(st.parents, n, node)]
       ELSE [costs |-> entered, parents |-> st.parents]

RECURSIVE RelaxFold(_, _, _, _, _)
RelaxFold(st, node, cost, neighbors, order) ==
    IF order = << >> THEN st
    ELSE RelaxFold(RelaxNeighbor(st, node, cost, neighbors, Head(order)),
                   node, cost, neighbors, Tail(order))

\* Lines 108-120 for a node that has an adjacency entry.
RelaxAll(g, costs_, parents_, node, order) ==
    RelaxFold([costs |-> costs_, parents |-> parents_], node, costs_[node],
              g[node], order)

\* --------------------------------------------- dejkstras_alg as a function

\* The outcomes of the while loop (lines 106-124) run to its end, over every
\* iteration order of the maps: None when `?` returns at line 109, else
\* Some(final costs).
RECURSIVE WhileLoop(_, _, _, _, _)
WhileLoop(g, costs_, parents_, processed_, opt) ==
    IF opt = None THEN {Some(costs_)}
    ELSE IF MapGet(g, opt[1]) = None THEN {None}
    ELSE LET done == processed_ \cup {opt[1]}
             relaxed == {RelaxAll(g, costs_, parents_, opt[1], o) :
                            o \in Orders(DOMAIN g[opt[1]])}
         IN UNION {UNION {WhileLoop(g, st.costs, st.parents, done, next) :
                             next \in {find_lowest_cost_node(st.costs, done, o) :
                                          o \in Orders(DOMAIN st.costs)}} :
                      st \in relaxed}

\* The values dejkstras_alg(graph, start, finish) can return, over every
\* iteration order of the maps.
dejkstras_alg(g, s, f) ==
    IF MapGet(g, s) = None THEN {None}
    ELSE LET first == {find_lowest_cost_node(g[s], {}, o) : o \in Orders(DOMAIN g[s])}
             ends == UNION {WhileLoop(g, g[s], EmptyMap, {}, opt) : opt \in first}
         IN {IF end = None THEN None ELSE MapGet(end[1], f) : end \in ends}

\* ------------------------------------------------------------------ state

VARIABLES graph, start, finish, costs, parents, processed, opt_node, pc, result,
          iterations

vars == <<graph, start, finish, costs, parents, processed, opt_node, pc, result,
          iterations>>

Init ==
    /\ graph = EmptyMap
    /\ start = "start"
    /\ finish \in Nodes
    /\ costs = EmptyMap
    /\ parents = EmptyMap
    /\ processed = {}
    /\ opt_node = None
    /\ pc = "build"
    /\ result = None
    /\ iterations = 0

\* The caller's graph.insert(k, new_h_map([...])).
GraphInsert(W, max_edges) ==
    /\ pc = "build"
    /\ \E k \in Nodes \ DOMAIN graph, m \in new_h_map(W) :
          /\ EdgeCount(graph) + Cardinality(DOMAIN m) <= max_edges
          /\ graph' = MapInsert(graph, k, m)
    /\ UNCHANGED <<start, finish, costs, parents, processed, opt_node, pc, result,
                   iterations>>

\* Mutant: an unknown start is taken for a start without neighbours.
CallUnknownStart_AsEmpty ==
    /\ pc = "build"
    /\ MapGet(graph, start) = None
    /\ costs' = EmptyMap
    /\ parents' = EmptyMap
    /\ processed' = {}
    /\ opt_node' = None
    /\ pc' = "loop"
    /\ UNCHANGED <<graph, start, finish, result, iterations>>

\* dejkstras_alg, lines 102-105, when start has no entry: `?` returns None.
CallUnknownStart ==
    /\ pc = "build"
    /\ MapGet(graph, start) = None
    /\ pc' = "done"
    /\ result' = None
    /\ UNCHANGED <<graph, start, finish, costs, parents, processed, opt_node,
                   iterations>>

\* Mutant: the costs table starts with start itself at cost 0.
Call_WithStartCost ==
    /\ pc = "build"
    /\ MapGet(graph, start) # None
    /\ costs' = MapInsert(graph[start], start, 0)
    /\ parents' = EmptyMap
    /\ processed' = {}
    /\ \E o \in Orders(DOMAIN costs') :
          opt_node' = find_lowest_cost_node(costs', processed', o)
    /\ pc' = "loop"
    /\ UNCHANGED <<graph, start, finish, result, iterations>>

\* dejkstras_alg, lines 102-105.
Call ==
    /\ pc = "build"
    /\ MapGet(graph, start) # None
    /\ costs' = graph[start]
    /\ parents' = EmptyMap
    /\ processed' = {}
    /\ \E o \in Orders(DOMAIN costs') :
          opt_node' = find_lowest_cost_node(costs', processed', o)
    /\ pc' = "loop"
    /\ UNCHANGED <<graph, start, finish, result, iterations>>

\* Mutant: a selected node without entry is taken for one without neighbours.
IterateMissingEntry_AsEmpty ==
    /\ pc = "loop"
    /\ opt_node # None
    /\ MapGet(graph, opt_node[1]) = None
    /\ processed' = processed \cup {opt_node[1]}
    /\ \E o \in Orders(DOMAIN costs) :
          opt_node' = find_lowest_cost_node(costs, processed', o)
    /\ iterations' = iterations + 1
    /\ UNCHANGED <<graph, start, finish, costs, parents, pc, result>>

\* Lines 106-109 when the selected node has no entry: `?` returns None.
IterateMissingEntry ==
    /\ pc = "loop"
    /\ opt_node # None
    /\ MapGet(graph, opt_node[1]) = None
    /\ iterations' = iterations + 1
    /\ pc' = "done"
    /\ result' = None
    /\ UNCHANGED <<graph, start, finish, costs, parents, processed, opt_node>>

\* Mutant: the selected node is not marked processed (line 122 left out).
Iterate_NotMarked ==
    /\ pc = "loop"
    /\ opt_node # None
    /\ MapGet(graph, opt_node[1]) # None
    /\ LET node == opt_node[1]
       IN /\ \E o \in Orders(DOMAIN graph[node]) :
                LET st == RelaxAll(graph, costs, parents, node, o)
                IN /\ costs' = st.costs
                   /\ parents' = st.parents
          /\ processed' = processed
          /\ \E o \in Orders(DOMAIN costs') :
                opt_node' = find_lowest_cost_node(costs', processed', o)
    /\ iterations' = iterations + 1
    /\ UNCHANGED <<graph, start, finish, pc, result>>

\* Lines 106-123: one full iteration of the while loop.
Iterate ==
    /\ pc = "loop"
    /\ opt_node # None
    /\ MapGet(graph, opt_node[1]) # None
    /\ LET node == opt_node[1]
       IN /\ \E o \in Orders(DOMAIN graph[node]) :
                LET st == RelaxAll(graph, costs, parents, node, o)
                IN /\ costs' = st.costs
                   /\ parents' = st.parents
          /\ processed' = processed \cup {node}
          /\ \E o \in Orders(DOMAIN costs') :
                opt_node' = find_lowest_cost_node(costs', processed', o)
    /\ iterations' = iterations + 1
    /\ UNCHANGED <<graph, start, finish, pc, result>>

\* Mutant: equal endpoints are answered with the empty path's cost.
Return_ZeroWhenSame ==
    /\ pc = "loop"
    /\ opt_node = None
    /\ result' = IF finish = start THEN Some(0) ELSE MapGet(costs, finish)
    /\ pc' = "done"
    /\ UNCHANGED <<graph, start, finish, costs, parents, processed, opt_node,
                   iterations>>

\* Line 126: the loop has ended.
Return ==
    /\ pc = "loop"
    /\ opt_node = None
    /\ result' = MapGet(costs, finish)
    /\ pc' = "done"
    /\ UNCHANGED <<graph, start, finish, costs, parents, processed, opt_node,
                   iterations>>

Query == CallUnknownStart \/ Call \/ IterateMissingEntry \/ Iterate \/ Return

Next == GraphInsert(Weights, MaxEdges) \/ Query

Spec == Init /\ [][Next]_vars

NextSigned == GraphInsert(SignedWeights, MaxSignedEdges) \/ Query

SpecSigned == Init /\ [][NextSigned]_vars

\* Graphs with weights -MaxNeg and MaxNeg (cycles of negative, zero and positive
\* weight); the routine runs without suspension, so a query in progress steps.
NextCycles == GraphInsert(CycleWeights, MaxSignedEdges) \/ Query

SpecCyclesFair == Init /\ [][NextCycles]_vars /\ WF_vars(Query)

\* ------------------------------------------------------- graph predicates

NonNegative(g) == \A k \in DOMAIN g : \A n \in DOMAIN g[k] : g[k][n] >= 0

\* Every node that appears as a neighbour has its own adjacency entry.
WellFormed(g) == \A k \in DOMAIN g : DOMAIN g[k] \subseteq DOMAIN g

\* The nodes occurring in g, as keys or as neighbours.
NodesOf(g) == (DOMAIN g) \cup UNION {DOMAIN g[k] : k \in DOMAIN g}

\* The total weights of the simple paths of one or more edges from u to v
\* (u = v: the simple cycles through u) that avoid the nodes in seen.
RECURSIVE PathCosts(_, _, _, _)
PathCosts(g, u, v, seen) ==
    IF u \notin DOMAIN g THEN {}
    ELSE UNION {(IF n = v THEN {g[u][n]} ELSE {})
                \cup (IF n \in seen \cup {v} THEN {}
                      ELSE {g[u][n] + c : c \in PathCosts(g, n, v, seen \cup {n})})
                : n \in DOMAIN g[u]}

\* The minimum total weight over the paths from u to v, None when there is none.
MinPathCost(g, u, v) ==
    LET cs == PathCosts(g, u, v, {u})
    IN IF cs = {} THEN None ELSE Some(CHOOSE c \in cs : \A d \in cs : c <= d)

\* The nodes reachable from u by one or more edges.
Reachable(g, u) == {v \in NodesOf(g) : PathCosts(g, u, v, {u}) # {}}

\* ------------------------------------------------------------------ claims

\* C1: on a well-formed graph with non-negative weights, with start a key and
\* finish different from start, the routine returns the minimum total weight
\* over all paths from start to finish, and None when there is no path.
C1_ShortestPath ==
    (/\ pc = "done"
     /\ start \in DOMAIN graph
     /\ finish # start
     /\ WellFormed(graph)
     /\ NonNegative(graph))
    => result = MinPathCost(graph, start, finish)

\* C1 witness: the answer is a path through another node that beats the
\* direct edge from start to finish.
C1_Witness ==
    /\ pc = "done"
    /\ WellFormed(graph)
    /\ finish # start
    /\ start \in DOMAIN graph
    /\ finish \in DOMAIN graph[start]
    /\ result # None
    /\ result[1] < graph[start][finish]

\* C2: when start is not a key of the graph the query is over at once with
\* None: no node was selected, no cost recorded, no iteration run.
C2_UnknownStart ==
    (pc # "build" /\ start \notin DOMAIN graph)
    => (/\ pc = "done"
        /\ result = None
        /\ iterations = 0
        /\ opt_node = None
        /\ costs = EmptyMap
        /\ processed = {})

\* C2 witness: start is unknown while finish is a key with an incoming edge.
C2_Witness ==
    /\ pc = "done"
    /\ start \notin DOMAIN graph
    /\ finish \in DOMAIN graph
    /\ \E k \in DOMAIN graph : finish \in DOMAIN graph[k]
    /\ result = None

\* C3: an iteration whose selected node has no adjacency entry ends the query
\* with None in that very iteration, whatever the costs table holds.
C3_MissingEntry ==
    [][(pc = "loop" /\ opt_node # None /\ opt_node[1] \notin DOMAIN graph)
       => (pc' = "done" /\ result' = None /\ iterations' = iterations + 1)]_vars

\* C3 witness: the query ended on a selected node without entry, other than
\* finish, while finish already had a cost recorded.
C3_Witness ==
    /\ pc = "done"
    /\ opt_node # None
    /\ opt_node[1] \notin DOMAIN graph
    /\ opt_node[1] # finish
    /\ finish \in DOMAIN costs
    /\ result = None

\* The graph without its edge u -> v (u keeps its entry).
RemoveEdge(g, u, v) ==
    [k \in DOMAIN g |->
        IF k = u THEN [n \in (DOMAIN g[k]) \ {v} |-> g[k][n]] ELSE g[k]]

\* The result on the present graph is Some(c') with c' <= c whenever a run on
\* the graph without one of its edges gives Some(c).
NeverWorseThanWithout(u, v) ==
    \A before \in dejkstras_alg(RemoveEdge(graph, u, v), start, finish) :
        before # None => (result # None /\ result[1] <= before[1])

\* C4 as stated: inserting any one edge with a non-negative weight into the
\* neighbour map of an existing key never raises the result and never turns
\* Some into None, whether or not the edge's target has an adjacency entry.
C4_Original ==
    (pc = "done" /\ NonNegative(graph))
    => \A u \in DOMAIN graph : \A v \in DOMAIN graph[u] : NeverWorseThanWithout(u, v)

\* C4 amended: the same, provided every node reachable from start in the
\* graph with the edge inserted has an adjacency entry.
C4_Monotone ==
    (/\ pc = "done"
     /\ NonNegative(graph)
     /\ Reachable(graph, start) \subseteq DOMAIN graph)
    => \A u \in DOMAIN graph : \A v \in DOMAIN graph[u] : NeverWorseThanWithout(u, v)

\* C4 witness: an edge whose insertion strictly lowers a result that was
\* already Some.
C4_Witness ==
    /\ pc = "done"
    /\ Reachable(graph, start) \subseteq DOMAIN graph
    /\ result # None
    /\ \E u \in DOMAIN graph : \E v \in DOMAIN graph[u] :
          \E before \in dejkstras_alg(RemoveEdge(graph, u, v), start, finish) :
              before # None /\ result[1] < before[1]

\* C5: with non-negative weights the routine has one possible return value
\* over all the orders the maps can be iterated in, and every run returns it.
C5_Deterministic ==
    (pc = "done" /\ NonNegative(graph))
    => dejkstras_alg(graph, start, finish) = {result}

\* C5 witness: a finished run in which two unprocessed nodes tied for the
\* lowest cost and start has two neighbours to relax.
C5_Witness ==
    /\ pc = "done"
    /\ result # None
    /\ start \in DOMAIN graph
    /\ \E m, n \in DOMAIN graph[start] : m # n /\ graph[start][m] = graph[start][n]

\* An iteration of the while loop is being run.
InIteration == pc = "loop" /\ opt_node # None

\* The step adds to processed exactly one node that was not in it.
AddsOneProcessed ==
    \E n \in Nodes \ processed : processed' = processed \cup {n}

\* C6 as stated: every iteration adds exactly one new node to processed.
C6_Original == [][InIteration => AddsOneProcessed]_vars

\* C6 amended: every iteration whose selected node has an adjacency entry adds
\* exactly one new node to processed, and one whose selected node has none
\* ends the query; the iterations never outnumber the nodes occurring in the
\* graph; the loop, once entered, ends.
C6_Terminates ==
    /\ [][InIteration =>
            IF opt_node[1] \in DOMAIN graph THEN AddsOneProcessed
            ELSE pc' = "done" /\ processed' = processed]_vars
    /\ [](iterations <= Cardinality(NodesOf(graph)))
    /\ ((pc = "loop") ~> (pc = "done"))

\* C6 witness: a run on a graph with a negative-weight cycle has ended after
\* processing every node of the cycle.
C6_Witness ==
    /\ pc = "done"
    /\ iterations >= 2
    /\ \E m, n \in processed :
          /\ m # n
          /\ n \in DOMAIN graph[m]
          /\ m \in DOMAIN graph[n]
          /\ graph[m][n] + graph[n][m] < 0

\* No step changes the cost entry of a node that is already processed.
ProcessedCostsKept == \A n \in processed : costs'[n] = costs[n]

\* C7 as stated: on any graph, negative weights included, the cost entry of a
\* processed node never changes again.
C7_Original == [][pc = "loop" => ProcessedCostsKept]_vars

\* C7 amended: on a graph whose weights are all non-negative, the cost entry
\* of a processed node never changes again.
C7_ProcessedFinal == [][(pc = "loop" /\ NonNegative(graph)) => ProcessedCostsKept]_vars

\* C7 witness: with non-negative weights, a node was relaxed as the neighbour
\* of a node processed after it, and kept its lower cost.
C7_Witness ==
    /\ NonNegative(graph)
    /\ \E p, q \in processed :
          /\ p # q
          /\ p \in DOMAIN graph[q]
          /\ costs[p] < costs[q]

\* C8: the selected node is an unprocessed key of the costs table with the
\* lowest cost among the unprocessed keys; with non-negative weights that
\* cost is the minimum total weight of a path of one or more edges from start.
C8_LowestIsFinal ==
    InIteration
    => LET node == opt_node[1]
       IN /\ node \in DOMAIN costs
          /\ node \notin processed
          /\ \A m \in (DOMAIN costs) \ processed : costs[node] <= costs[m]
          /\ (NonNegative(graph)
              => Some(costs[node]) = MinPathCost(graph, start, node))

\* C8 witness: with non-negative weights, the selected node has a cost that a
\* relaxation lowered below the weight of its direct edge from start.
C8_Witness ==
    /\ InIteration
    /\ NonNegative(graph)
    /\ opt_node[1] \in DOMAIN graph[start]
    /\ costs[opt_node[1]] < graph[start][opt_node[1]]

\* Some edge of g leads to node n.
HasEdgeInto(g, n) == \E k \in DOMAIN g : n \in DOMAIN g[k]

\* C9 as stated: on every graph, start is never a key of the costs table.
C9_Original == start \notin DOMAIN costs

\* C9 amended: on every graph with no edge leading to start, start is never
\* a key of the costs table.
C9_StartNotInCosts == ~HasEdgeInto(graph, start) => start \notin DOMAIN costs

\* C9 witness: a run over two iterations on a graph with no edge to start
\* that found a cost for finish.
C9_Witness ==
    /\ pc = "done"
    /\ ~HasEdgeInto(graph, start)
    /\ iterations >= 2
    /\ result # None

\* C10: with finish = start on a well-formed graph with non-negative weights
\* the routine returns the minimum weight of a cycle through start, None when
\* there is none; with no outgoing edge of start no iteration runs.
C10_StartIsFinish ==
    (/\ pc = "done"
     /\ finish = start
     /\ start \in DOMAIN graph
     /\ WellFormed(graph)
     /\ NonNegative(graph))
    => (/\ result = MinPathCost(graph, start, start)
        /\ (DOMAIN graph[start] = {} => (iterations = 0 /\ result = None)))

\* C10 witness: finish = start and the answer is the positive weight of a
\* cycle of two or more edges.
C10_Witness ==
    /\ pc = "done"
    /\ finish = start
    /\ start \in DOMAIN graph
    /\ WellFormed(graph)
    /\ start \notin DOMAIN graph[start]
    /\ result # None
    /\ result[1] > 0

====
